---- MODULE Spec2Model ----
(***************************************************************************)
(* A model of takedowntello.py: the UDP command channel of a Tello drone   *)
(* controller.  One socket, bound to port 8889, is shared by the main      *)
(* thread, the keyboard callback thread, the XboxController thread and the *)
(* video thread.  send_command is modelled step by step (sendto, recvfrom, *)
(* retry) for each thread, so that the interleavings of the threads on the *)
(* shared socket are those of the program.                                 *)
(*                                                                         *)
(* Text.  A Python str is a sequence of code points and a datagram is a    *)
(* sequence of bytes.  The commands are the program's string literals.     *)
(* Time is counted in hundredths of a second.                              *)
(***************************************************************************)
EXTENDS Integers, Sequences, FiniteSets, TLC

\* ------------------------------------------------------------- bounds
\* Key presses delivered to the keyboard hooks in one run.
MaxKeys == 2
\* Gamepad events delivered to the controller in one run.
MaxPad == 2
\* Socket errors and device exceptions the environment raises in one run.
MaxFaults == 1
\* Ctrl-C (KeyboardInterrupt) signals in one run.
MaxInterrupts == 1
\* Key presses and gamepad events together, where both devices are used.
MaxInputs == 2
\* Datagrams the network holds on their way to the vehicle; one sent when it
\* is full is lost.
MaxWire == 1
\* Datagrams the socket's receive buffer holds; one arriving when it is full
\* is dropped.
MaxQueue == 1
\* The clock stops advancing here (hundredths of a second).
MaxTime == 110
\* Longest status response the vehicle sends, in characters.
MaxStatusLen == 4

\* ---------------------------------------------------- program constants
\* send_command(..., retry=3, ...)
Retry == 3
\* time.sleep(1) between two attempts of send_command, in 1/100 s
Backoff == 100
\* establish_connection(max_attempts=3)
MaxAttempts == 3
\* command_socket.bind(('', 8889))
LocalPort == 8889
\* command_addr = ('192.168.10.1', 8889)
RemotePort == 8889
\* self.command_delay = 0.5, in 1/100 s
CommandDelay == 50
Threads == {"main", "kb", "ctl", "vid"}

\* ------------------------------------------------------------------ text
\* str.encode() of the string literals the program sends or compares with
\* (all ASCII, so the UTF-8 bytes are the code points).
Utf8(s) ==
    CASE s = "ok"        -> <<111, 107>>
      [] s = "command"   -> <<99, 111, 109, 109, 97, 110, 100>>
      [] s = "battery?"  -> <<98, 97, 116, 116, 101, 114, 121, 63>>
      [] s = "takeoff"   -> <<116, 97, 107, 101, 111, 102, 102>>
      [] s = "land"      -> <<108, 97, 110, 100>>
      [] s = "up 30"     -> <<117, 112, 32, 51, 48>>
      [] s = "down 30"   -> <<100, 111, 119, 110, 32, 51, 48>>
      [] s = "streamon"  -> <<115, 116, 114, 101, 97, 109, 111, 110>>
      [] s = "streamoff" -> <<115, 116, 114, 101, 97, 109, 111, 102, 102>>
      [] s = "status?"   -> <<115, 116, 97, 116, 117, 115, 63>>
      [] s = "emergency" -> <<101, 109, 101, 114, 103, 101, 110, 99, 121>>
      [] s = "wifi s p"  -> <<119, 105, 102, 105, 32, 115, 32, 112>>
      [] s = "error"     -> <<101, 114, 114, 111, 114>>
      [] s = "81"        -> <<56, 49>>
      [] s = "15"        -> <<49, 53>>

\* bytes.decode(): the payloads of the model are ASCII or hold the byte 0xCC,
\* which no UTF-8 text holds on its own, so decoding succeeds exactly when
\* every byte is below 128 and is then the identity on the values.
Decodable(b) == \A i \in 1..Len(b) : b[i] < 128

\* The code points str.strip() removes, below 128.
Whitespace == {9, 10, 11, 12, 13, 28, 29, 30, 31, 32}

RECURSIVE LStrip(_)
LStrip(s) ==
    IF s # <<>> /\ Head(s) \in Whitespace THEN LStrip(Tail(s)) ELSE s

RECURSIVE RStrip(_)
RStrip(s) ==
    IF s # <<>> /\ s[Len(s)] \in Whitespace
    THEN RStrip(SubSeq(s, 1, Len(s) - 1)) ELSE s

\* response.decode().strip() of a decodable payload
Strip(s) == RStrip(LStrip(s))

\* The value send_command returns: a str, or None.
None == [some |-> FALSE, text |-> <<>>]
Some(s) == [some |-> TRUE, text |-> s]

\* ----------------------------------------------------------------- state
VARIABLES
    pc,                 \* each thread's position in its code
    cmd,                \* send_command: the command of the thread's call
    attempt,            \* send_command / establish_connection: the loop variable
    ret,                \* send_command: the value returned to the caller
    cont,               \* the call site send_command returns to
    trace,              \* what the thread's current send_command call did
    rxq,                \* datagrams received by the socket and not yet read
    wire,               \* datagrams sent and not yet handled by the vehicle
    sentSet,            \* every payload the program has sent
    responder,          \* how the vehicle answers
    faults,             \* socket errors and device exceptions raised so far
    presses,            \* key presses delivered so far
    padEvents,          \* gamepad events delivered so far
    interrupts,         \* Ctrl-C signals so far
    now,                \* time.time(), in 1/100 s
    sockId,             \* sockets created so far; the last one is command_socket
    bound,              \* whether command_socket is bound to LocalPort
    session,            \* establish_connection's result
    estLog,             \* what each attempt of establish_connection did, until
                        \* main() has verified the session it returned
    kbq,                \* key events waiting for the keyboard callback thread
    handlers,           \* keys with a registered on_press_key hook
    video_started,      \* main: the closure's flag
    status,             \* get_tello_status: the response it got and what it printed
    videoLog,           \* start_video: what each press of key 2 did
    padq,               \* gamepad events the device holds
    events,             \* XboxController.run: the events being handled
    running,            \* XboxController.running
    left_thumb_y,       \* XboxController.left_thumb_y, times 32767
    abs_y,              \* event.state of the last ABS_Y event handled
    last_command_time,  \* XboxController.last_command_time
    current_time,       \* _process_movement_commands: its local current_time
    alive,              \* the process has not exited
    phase,              \* the session lifecycle
    emergLog,           \* each emergency stop: who sent it and how many datagrams
    issued,             \* when each movement command was issued, and which
    sdLog,              \* what the shutdown path did
    checked             \* what check_connection's health check got: "", "ok", "failed"

frameVars == <<pc, cmd, attempt, ret, cont, trace>>
netVars == <<rxq, wire, sentSet>>
envVars == <<responder, faults, presses, padEvents, interrupts, now>>
estVars == <<sockId, bound, session, estLog>>
kbVars == <<kbq, handlers, video_started, status, videoLog>>
ctlVars ==
    <<padq, events, running, left_thumb_y, abs_y, last_command_time, current_time>>
lifeVars == <<alive, phase, emergLog, issued, sdLog, checked>>
vars == <<frameVars, netVars, envVars, estVars, kbVars, ctlVars, lifeVars>>

\* One thing a send_command call did: e is "sendto", "senderr", "dgram",
\* "timeout", "recverr" or "sleep"; a is the attempt; b the datagram read;
\* d the time slept.
Ev(e, a, b, d) == [e |-> e, a |-> a, b |-> b, d |-> d]

SetFrame(t, p, c, a, r, k, tr) ==
    /\ pc' = [pc EXCEPT ![t] = p]
    /\ cmd' = [cmd EXCEPT ![t] = c]
    /\ attempt' = [attempt EXCEPT ![t] = a]
    /\ ret' = [ret EXCEPT ![t] = r]
    /\ cont' = [cont EXCEPT ![t] = k]
    /\ trace' = [trace EXCEPT ![t] = tr]

Goto(t, p) ==
    /\ pc' = [pc EXCEPT ![t] = p]
    /\ UNCHANGED <<cmd, attempt, ret, cont, trace>>

\* send_command has returned and its caller goes on at p: the call's frame is
\* gone.
Resume(t, p) == SetFrame(t, p, "", 0, None, "", <<>>)

\* socket.sendto(data, command_addr) by thread t
Carry(w, t, data) ==
    IF Len(w) < MaxWire THEN Append(w, [src |-> t, data |-> data]) ELSE w

Transmit(t, data) ==
    /\ wire' = Carry(wire, t, data)
    /\ sentSet' = sentSet \cup {data}

\* ---------------------------------------------------------- send_command
\* The call: settimeout, then the first iteration of `for attempt in
\* range(retry)`.
Call(t, c, k) == SetFrame(t, "sc_send", c, 0, None, k, <<>>)

\* `for attempt in range(retry)`: another iteration follows attempt a
MoreAttempts(a) == a + 1 < Retry

\* (a variant that sleeps after the last attempt as well)
SleepAfterEveryAttempt(a) == TRUE

\* `if attempt < retry - 1: time.sleep(1)`
SleepBeforeRetry(a) == a < Retry - 1

\* (a variant that tries again at once, within the same attempt)
AfterAttemptRetriesAtOnce(t, tr) ==
    SetFrame(t, "sc_send", cmd[t], attempt[t], ret[t], cont[t], tr)

\* The end of an iteration that did not return: the backoff, then the next
\* iteration or `return None`.
AfterAttempt(t, tr) ==
    LET tr2 == IF SleepBeforeRetry(attempt[t])
               THEN Append(tr, Ev("sleep", attempt[t], <<>>, Backoff))
               ELSE tr
    IN  IF MoreAttempts(attempt[t])
        THEN SetFrame(t, "sc_send", cmd[t], attempt[t] + 1, ret[t], cont[t], tr2)
        ELSE SetFrame(t, "sc_ret", cmd[t], attempt[t], None, cont[t], tr2)

\* The shutdown path's record of the sendto calls the main thread makes.
LogShutdown(t, c, ok) ==
    sdLog' = IF t = "main" /\ phase = "ShuttingDown"
             THEN Append(sdLog, [c |-> c, ok |-> ok])
             ELSE sdLog

\* command_socket.sendto(command.encode(), command_addr)
SC_SendOk(t) ==
    /\ alive /\ pc[t] = "sc_send"
    /\ Transmit(t, Utf8(cmd[t]))
    /\ pc' = [pc EXCEPT ![t] = "sc_recv"]
    /\ trace' = [trace EXCEPT ![t] = Append(@, Ev("sendto", attempt[t], <<>>, 0))]
    /\ LogShutdown(t, cmd[t], TRUE)
    /\ UNCHANGED <<cmd, attempt, ret, cont, rxq>>
    /\ UNCHANGED <<envVars, estVars, kbVars, ctlVars>>
    /\ UNCHANGED <<alive, phase, emergLog, issued, checked>>

\* sendto raises (no route to the drone's network): `except Exception`
SC_SendErr(t) ==
    /\ alive /\ pc[t] = "sc_send"
    /\ faults < MaxFaults
    /\ faults' = faults + 1
    /\ AfterAttempt(t, Append(trace[t], Ev("senderr", attempt[t], <<>>, 0)))
    /\ LogShutdown(t, cmd[t], FALSE)
    /\ UNCHANGED <<netVars, responder, presses, padEvents, interrupts, now>>
    /\ UNCHANGED <<estVars, kbVars, ctlVars>>
    /\ UNCHANGED <<alive, phase, emergLog, issued, checked>>

\* (a variant that forgets strip())
ResponseUnstripped(d) == Some(d)

\* The value returned for datagram d: response.decode().strip()
Response(d) == Some(Strip(d))

\* recvfrom returns a datagram: `return response`, or, when decode() raises,
\* `except Exception` and the end of the iteration.
SC_RecvData(t) ==
    /\ alive /\ pc[t] = "sc_recv"
    /\ rxq # <<>>
    /\ rxq' = Tail(rxq)
    /\ LET d == Head(rxq)
           tr == Append(trace[t], Ev("dgram", attempt[t], d, 0))
       IN  IF Decodable(d)
           THEN SetFrame(t, "sc_ret", cmd[t], attempt[t], Response(d), cont[t], tr)
           ELSE AfterAttempt(t, tr)
    /\ UNCHANGED <<wire, sentSet>>
    /\ UNCHANGED <<envVars, estVars, kbVars, ctlVars, lifeVars>>

\* recvfrom raises socket.timeout: no datagram came within the timeout
SC_RecvTimeout(t) ==
    /\ alive /\ pc[t] = "sc_recv"
    /\ rxq = <<>>
    /\ AfterAttempt(t, Append(trace[t], Ev("timeout", attempt[t], <<>>, 0)))
    /\ UNCHANGED <<netVars, envVars, estVars, kbVars, ctlVars, lifeVars>>

\* recvfrom raises another socket error: `except Exception`
SC_RecvErr(t) ==
    /\ alive /\ pc[t] = "sc_recv"
    /\ rxq = <<>>
    /\ faults < MaxFaults
    /\ faults' = faults + 1
    /\ AfterAttempt(t, Append(trace[t], Ev("recverr", attempt[t], <<>>, 0)))
    /\ UNCHANGED <<netVars, responder, presses, padEvents, interrupts, now>>
    /\ UNCHANGED <<estVars, kbVars, ctlVars, lifeVars>>

SendCommand(t) ==
    \/ SC_SendOk(t)
    \/ SC_SendErr(t)
    \/ SC_RecvData(t)
    \/ SC_RecvTimeout(t)
    \/ SC_RecvErr(t)

\* --------------------------------------------------------------- vehicle
\* What the vehicle may answer to a datagram.  "protocol" is the drone's SDK,
\* "echo" a test responder that sends the command back, "noisy" a drone whose
\* answers are " ok\r\n" or the single byte 0xCC, which is no UTF-8.
Replies(mode, data) ==
    CASE mode = "echo" -> {data}
      [] mode = "noisy" -> {<<32>> \o Utf8("ok") \o <<13, 10>>, <<204>>}
      [] mode = "protocol" ->
            IF data = Utf8("battery?") THEN {Utf8("81"), Utf8("15")}
            ELSE {Utf8("ok"), Utf8("error")}

\* The vehicle handles the oldest datagram: it answers, or it does not (the
\* datagram or the answer is lost).  An answer may come after the sender's
\* timeout: nothing orders this step with the sender's steps.
VehicleAnswer ==
    /\ alive /\ wire # <<>>
    /\ wire' = Tail(wire)
    /\ \E r \in Replies(responder, Head(wire).data) :
          rxq' = IF bound /\ Len(rxq) < MaxQueue THEN Append(rxq, r) ELSE rxq
    /\ UNCHANGED <<sentSet, frameVars, envVars, estVars, kbVars, ctlVars, lifeVars>>

VehicleSilent ==
    /\ alive /\ wire # <<>>
    /\ wire' = Tail(wire)
    /\ UNCHANGED <<rxq, sentSet, frameVars, envVars, estVars, kbVars, ctlVars, lifeVars>>

\* -------------------------------------------------------------- keyboard
\* The keys main() hooks with keyboard.on_press_key.
HookedKeys == {"1", "2", "3", "4", "6", "t", "u"}

\* A key is pressed: the keyboard library queues the event for its callback
\* thread, which runs the hooks one event after the other.
PressKey(k) ==
    /\ alive /\ k \in handlers
    /\ presses < MaxKeys
    /\ presses' = presses + 1
    /\ kbq' = Append(kbq, k)
    /\ UNCHANGED <<handlers, video_started, status, videoLog>>
    /\ UNCHANGED <<responder, faults, padEvents, interrupts, now>>
    /\ UNCHANGED <<frameVars, netVars, estVars, ctlVars, lifeVars>>

KbNext(k) == alive /\ pc["kb"] = "kb_idle" /\ kbq # <<>> /\ Head(kbq) = k

\* keyboard.on_press_key("3", lambda _: send_command(..., "land"))
KbLand ==
    /\ KbNext("3")
    /\ kbq' = Tail(kbq)
    /\ Call("kb", "land", "kb_done")
    /\ UNCHANGED <<handlers, video_started, status, videoLog>>
    /\ UNCHANGED <<netVars, envVars, estVars, ctlVars, lifeVars>>

\* keyboard.on_press_key("t", lambda _: send_command(..., "takeoff"))
KbTakeoff ==
    /\ KbNext("t")
    /\ kbq' = Tail(kbq)
    /\ Call("kb", "takeoff", "kb_done")
    /\ UNCHANGED <<handlers, video_started, status, videoLog>>
    /\ UNCHANGED <<netVars, envVars, estVars, ctlVars, lifeVars>>

\* The hook returns: the callback thread takes the next event.
KbDone ==
    /\ alive /\ pc["kb"] = "sc_ret" /\ cont["kb"] = "kb_done"
    /\ Resume("kb", "kb_idle")
    /\ UNCHANGED <<netVars, envVars, estVars, kbVars, ctlVars, lifeVars>>

\* -------------------------------------------------------- emergency stop
\* Three sendto(b"emergency", command_addr) in a row inside one try: all
\* three go out, or one raises after n < 3 went out and the handler reports
\* the error.  Nothing is received and nothing is waited for.
EmergencyBurst == 3

RECURSIVE Burst(_, _, _)
Burst(w, t, n) ==
    IF n = 0 THEN w ELSE Burst(Carry(w, t, Utf8("emergency")), t, n - 1)

EmergencySend(t, n) ==
    /\ wire' = Burst(wire, t, n)
    /\ sentSet' = IF n > 0 THEN sentSet \cup {Utf8("emergency")} ELSE sentSet
    /\ emergLog' = Append(emergLog, [src |-> t, n |-> n, busy |->
                      {u \in Threads : pc[u] \in {"sc_send", "sc_recv"}}])
    /\ faults' = IF n < EmergencyBurst THEN faults + 1 ELSE faults
    /\ n < EmergencyBurst => faults < MaxFaults
    /\ UNCHANGED <<rxq, responder, presses, padEvents, interrupts, now>>
    /\ UNCHANGED <<alive, phase, issued, sdLog, checked>>

\* (a variant that sends the emergency stop through send_command)
KbEmergencyDispatched ==
    /\ KbNext("1")
    /\ kbq' = Tail(kbq)
    /\ Call("kb", "emergency", "kb_done")
    /\ UNCHANGED <<handlers, video_started, status, videoLog>>
    /\ UNCHANGED <<netVars, envVars, estVars, ctlVars, lifeVars>>

\* (a variant without the try: a socket error ends the callback thread)
KbEmergencyUncaught ==
    /\ KbNext("1")
    /\ kbq' = Tail(kbq)
    /\ \E n \in 0..EmergencyBurst :
          /\ EmergencySend("kb", n)
          /\ IF n < EmergencyBurst THEN Goto("kb", "kb_dead")
                                   ELSE UNCHANGED frameVars
    /\ UNCHANGED <<handlers, video_started, status, videoLog>>
    /\ UNCHANGED <<estVars, ctlVars>>

\* keyboard.on_press_key("1", lambda _: emergency_stop())
KbEmergency ==
    /\ KbNext("1")
    /\ kbq' = Tail(kbq)
    /\ \E n \in 0..EmergencyBurst : EmergencySend("kb", n)
    /\ UNCHANGED <<handlers, video_started, status, videoLog>>
    /\ UNCHANGED <<frameVars, estVars, ctlVars>>

\* ---------------------------------------------------- more keyboard hooks
\* keyboard.on_press_key("2", lambda _: start_video()): the first press
\* starts the video thread, which begins watch_video_stream with its
\* send_command("streamon"); a later press only prints.
\* (a variant that forgets `video_started = True`)
KbStartVideoNoFlag ==
    /\ KbNext("2")
    /\ kbq' = Tail(kbq)
    /\ IF ~video_started
       THEN /\ Call("vid", "streamon", "vid_on")
            /\ videoLog' = Append(videoLog, [started |-> TRUE, vid |-> pc["vid"]])
       ELSE /\ UNCHANGED frameVars
            /\ videoLog' = Append(videoLog, [started |-> FALSE, vid |-> pc["vid"]])
    /\ UNCHANGED <<handlers, video_started, status>>
    /\ UNCHANGED <<netVars, envVars, estVars, ctlVars, lifeVars>>

KbStartVideo ==
    /\ KbNext("2")
    /\ kbq' = Tail(kbq)
    /\ IF ~video_started
       THEN /\ video_started' = TRUE
            /\ Call("vid", "streamon", "vid_on")
            /\ videoLog' = Append(videoLog, [started |-> TRUE, vid |-> pc["vid"]])
       ELSE /\ UNCHANGED <<video_started, frameVars>>
            /\ videoLog' = Append(videoLog, [started |-> FALSE, vid |-> pc["vid"]])
    /\ UNCHANGED <<handlers, status>>
    /\ UNCHANGED <<netVars, envVars, estVars, ctlVars, lifeVars>>

\* keyboard.on_press_key("6", ...): get_tello_status sends "status?"
KbStatus ==
    /\ KbNext("6")
    /\ kbq' = Tail(kbq)
    /\ Call("kb", "status?", "kb_status")
    /\ UNCHANGED <<handlers, video_started, status, videoLog>>
    /\ UNCHANGED <<netVars, envVars, estVars, ctlVars, lifeVars>>

\* ------------------------------------------------------- get_tello_status
\* ';' and ':' and the text "N/A"
Semicolon == 59
Colon == 58
NotAvailable == <<78, 47, 65>>

Contains(s, c) == \E i \in 1..Len(s) : s[i] = c

\* str.split(c): the pieces between the occurrences of c, empty ones included
RECURSIVE Split(_, _)
Split(s, c) ==
    IF ~Contains(s, c) THEN <<s>>
    ELSE LET i == CHOOSE k \in 1..Len(s) :
                      s[k] = c /\ \A j \in 1..(k - 1) : s[j] # c
         IN  <<SubSeq(s, 1, i - 1)>> \o Split(SubSeq(s, i + 1, Len(s)), c)

\* (a variant without the default for an item that has no ':')
KeyValueNoDefault(item) == Split(item, Colon)

\* `item.split(':') if ':' in item else (item, "N/A")`
KeyValue(item) ==
    IF Contains(item, Colon) THEN Split(item, Colon) ELSE <<item, NotAvailable>>

\* The loop over status_items inside the try: each non-empty item is
\* unpacked into key and value and printed stripped; unpacking anything
\* but two values raises ValueError, which ends the loop.
RECURSIVE ReportItems(_)
ReportItems(items) ==
    IF items = <<>> THEN [printed |-> <<>>, raised |-> FALSE]
    ELSE IF Head(items) = <<>> THEN ReportItems(Tail(items))
    ELSE IF Len(KeyValue(Head(items))) # 2
         THEN [printed |-> <<>>, raised |-> TRUE]
    ELSE LET kv == KeyValue(Head(items))
             rest == ReportItems(Tail(items))
         IN  [printed |-> <<<<Strip(kv[1]), Strip(kv[2])>>>> \o rest.printed,
              raised |-> rest.raised]

\* What get_tello_status does with the response r of send_command: nothing
\* for None and for "", else the report, ended by "Error parsing status" and
\* the raw response when the loop raised.
NoStatus == [state |-> "", raw |-> None, printed |-> <<>>]

GetTelloStatus(r) ==
    IF ~r.some \/ r.text = <<>>
    THEN [state |-> "failed", raw |-> r, printed |-> <<>>]
    ELSE LET rep == ReportItems(Split(r.text, Semicolon))
         IN  [state |-> IF rep.raised THEN "error" ELSE "parsed",
              raw |-> r, printed |-> rep.printed]

\* send_command("status?") returned: lines 157-175, then the hook returns
KbStatusDone ==
    /\ alive /\ pc["kb"] = "sc_ret" /\ cont["kb"] = "kb_status"
    /\ status' = GetTelloStatus(ret["kb"])
    /\ Resume("kb", "kb_idle")
    /\ UNCHANGED <<kbq, handlers, video_started, videoLog>>
    /\ UNCHANGED <<netVars, envVars, estVars, ctlVars, lifeVars>>

\* keyboard.on_press_key("4", ...): configure_wifi first blocks in input()
KbWifi ==
    /\ KbNext("4")
    /\ kbq' = Tail(kbq)
    /\ Goto("kb", "kb_input")
    /\ UNCHANGED <<handlers, video_started, status, videoLog>>
    /\ UNCHANGED <<netVars, envVars, estVars, ctlVars, lifeVars>>

\* configure_wifi: an empty SSID or password returns; otherwise the wifi
\* command is sent.
KbWifiInput ==
    /\ alive /\ pc["kb"] = "kb_input"
    /\ \/ Goto("kb", "kb_idle")
       \/ Call("kb", "wifi s p", "kb_done")
    /\ UNCHANGED <<netVars, envVars, estVars, kbVars, ctlVars, lifeVars>>

\* keyboard.on_press_key("u", lambda _: move_up()): move_up is not defined,
\* so the hook raises NameError in the callback thread.  What the keyboard
\* library does with an exception of a hook is not this repository's code:
\* the thread goes on, or it ends.
KbMoveUp ==
    /\ KbNext("u")
    /\ kbq' = Tail(kbq)
    /\ \/ Goto("kb", "kb_idle")
       \/ Goto("kb", "kb_dead")
    /\ UNCHANGED <<handlers, video_started, status, videoLog>>
    /\ UNCHANGED <<netVars, envVars, estVars, ctlVars, lifeVars>>

\* ------------------------------------------------------ watch_video_stream
\* send_command("streamon") returned
VidOn ==
    /\ alive /\ pc["vid"] = "sc_ret" /\ cont["vid"] = "vid_on"
    /\ IF ret["vid"] = Some(Utf8("ok"))
       THEN Resume("vid", "vid_open")
       ELSE Resume("vid", "vid_done")
    /\ UNCHANGED <<netVars, envVars, estVars, kbVars, ctlVars, lifeVars>>

\* cv2.VideoCapture never opens in three tries: streamoff and return
VidOpenFail ==
    /\ alive /\ pc["vid"] = "vid_open"
    /\ Call("vid", "streamoff", "vid_off")
    /\ UNCHANGED <<netVars, envVars, estVars, kbVars, ctlVars, lifeVars>>

\* the capture opened: the frame loop
VidOpenOk ==
    /\ alive /\ pc["vid"] = "vid_open"
    /\ Goto("vid", "vid_frames")
    /\ UNCHANGED <<netVars, envVars, estVars, kbVars, ctlVars, lifeVars>>

\* Esc, a lost stream or an exception ends the frame loop: `finally` sends
\* streamoff
VidEnd ==
    /\ alive /\ pc["vid"] = "vid_frames"
    /\ Call("vid", "streamoff", "vid_off")
    /\ UNCHANGED <<netVars, envVars, estVars, kbVars, ctlVars, lifeVars>>

VidOff ==
    /\ alive /\ pc["vid"] = "sc_ret" /\ cont["vid"] = "vid_off"
    /\ Resume("vid", "vid_done")
    /\ UNCHANGED <<netVars, envVars, estVars, kbVars, ctlVars, lifeVars>>

Video == VidOn \/ VidOpenFail \/ VidOpenOk \/ VidEnd \/ VidOff

\* ---------------------------------------------------------- XboxController
\* _map_stick_value divides by 327.67: the model keeps 32767 times the
\* normalized value, which is 100 times the raw value, an integer.
AxisScale == 32767
\* `if abs(normalized) < 15: return 0`
StickDeadzone == 15
\* `if abs(self.left_thumb_y) > 30`
MoveThreshold == 30

Abs(x) == IF x < 0 THEN -x ELSE x

\* _map_stick_value(value), times AxisScale
MapStickValue(value) ==
    IF Abs(value * 100) < StickDeadzone * AxisScale THEN 0 ELSE value * 100

\* _handle_analog_input: self.left_thumb_y = -1 * self._map_stick_value(state)
ThumbY(state) == (-1) * MapStickValue(state)

\* The raw ABS_Y values of the model: full deflection both ways, rest, and
\* 20 % and 10 % of the range.
RawAxis == {-32768, -6553, 0, 3276, 6553, 32767}

PadEv(ty, code, state) == [ev_type |-> ty, code |-> code, state |-> state]

\* The gamepad events of the model.
Buttons == {"BTN_SOUTH", "BTN_EAST", "BTN_WEST"}

PadInputs ==
    {PadEv("Absolute", "ABS_Y", v) : v \in RawAxis}
        \cup {PadEv("Key", b, 1) : b \in Buttons}
        \cup {PadEv("Key", "BTN_SOUTH", 0), PadEv("Sync", "SYN_REPORT", 0)}

\* The device produces an event; get_gamepad() will return it.
PadEvent(e) ==
    /\ alive /\ pc["ctl"] \notin {"ctl_new", "ctl_exit"}
    /\ padEvents < MaxPad
    /\ padEvents' = padEvents + 1
    /\ padq' = Append(padq, e)
    /\ UNCHANGED <<events, running, left_thumb_y, abs_y, last_command_time, current_time>>
    /\ UNCHANGED <<responder, faults, presses, interrupts, now>>
    /\ UNCHANGED <<frameVars, netVars, estVars, kbVars, lifeVars>>

\* run(): self.running = True
CtlStart ==
    /\ alive /\ pc["ctl"] = "ctl_start"
    /\ running' = TRUE
    /\ Goto("ctl", "ctl_loop")
    /\ UNCHANGED <<padq, events, left_thumb_y, abs_y, last_command_time, current_time>>
    /\ UNCHANGED <<netVars, envVars, estVars, kbVars, lifeVars>>

\* `while self.running:` the flag is read once per iteration
CtlLoop ==
    /\ alive /\ pc["ctl"] = "ctl_loop"
    /\ IF running THEN Goto("ctl", "ctl_get") ELSE Goto("ctl", "ctl_exit")
    /\ UNCHANGED <<netVars, envVars, estVars, kbVars, ctlVars, lifeVars>>

\* events = get_gamepad(): blocks until the device has events
CtlGet ==
    /\ alive /\ pc["ctl"] = "ctl_get"
    /\ padq # <<>>
    /\ events' = padq
    /\ padq' = <<>>
    /\ Goto("ctl", "ctl_events")
    /\ UNCHANGED <<running, left_thumb_y, abs_y, last_command_time, current_time>>
    /\ UNCHANGED <<netVars, envVars, estVars, kbVars, lifeVars>>

\* get_gamepad() raises (no gamepad found, or another error): the loop
\* sleeps 3 s or 1 s and goes round
CtlGetErr ==
    /\ alive /\ pc["ctl"] = "ctl_get"
    /\ faults < MaxFaults
    /\ faults' = faults + 1
    /\ Goto("ctl", "ctl_loop")
    /\ UNCHANGED <<responder, presses, padEvents, interrupts, now>>
    /\ UNCHANGED <<netVars, estVars, kbVars, ctlVars, lifeVars>>

CtlHead(ty) ==
    alive /\ pc["ctl"] = "ctl_events" /\ events # <<>> /\ Head(events).ev_type = ty

\* _handle_analog_input(event)
CtlAxis ==
    /\ CtlHead("Absolute")
    /\ events' = Tail(events)
    /\ left_thumb_y' = IF Head(events).code = "ABS_Y"
                       THEN ThumbY(Head(events).state) ELSE left_thumb_y
    /\ abs_y' = IF Head(events).code = "ABS_Y" THEN Head(events).state ELSE abs_y
    /\ UNCHANGED <<padq, running, last_command_time, current_time>>
    /\ UNCHANGED <<frameVars, netVars, envVars, estVars, kbVars, lifeVars>>

\* _handle_button_press(event), A button: send_command("takeoff")
CtlTakeoff ==
    /\ CtlHead("Key")
    /\ Head(events).state = 1 /\ Head(events).code = "BTN_SOUTH"
    /\ events' = Tail(events)
    /\ Call("ctl", "takeoff", "ctl_btn")
    /\ UNCHANGED <<padq, running, left_thumb_y, abs_y, last_command_time, current_time>>
    /\ UNCHANGED <<netVars, envVars, estVars, kbVars, lifeVars>>

\* _handle_button_press(event), B button: send_command("land")
CtlLand ==
    /\ CtlHead("Key")
    /\ Head(events).state = 1 /\ Head(events).code = "BTN_EAST"
    /\ events' = Tail(events)
    /\ Call("ctl", "land", "ctl_btn")
    /\ UNCHANGED <<padq, running, left_thumb_y, abs_y, last_command_time, current_time>>
    /\ UNCHANGED <<netVars, envVars, estVars, kbVars, lifeVars>>

\* _handle_button_press(event), X button: the three emergency datagrams
CtlEmergency ==
    /\ CtlHead("Key")
    /\ Head(events).state = 1 /\ Head(events).code = "BTN_WEST"
    /\ events' = Tail(events)
    /\ \E n \in 0..EmergencyBurst : EmergencySend("ctl", n)
    /\ UNCHANGED <<padq, running, left_thumb_y, abs_y, last_command_time, current_time>>
    /\ UNCHANGED <<frameVars, estVars, kbVars>>

\* a button release, or an event that is neither Absolute nor Key
CtlIgnore ==
    /\ alive /\ pc["ctl"] = "ctl_events" /\ events # <<>>
    /\ \/ Head(events).ev_type \notin {"Absolute", "Key"}
       \/ Head(events).ev_type = "Key" /\ Head(events).state # 1
    /\ events' = Tail(events)
    /\ UNCHANGED <<padq, running, left_thumb_y, abs_y, last_command_time, current_time>>
    /\ UNCHANGED <<frameVars, netVars, envVars, estVars, kbVars, lifeVars>>

\* the button's send_command returned: the next event
CtlButtonDone ==
    /\ alive /\ pc["ctl"] = "sc_ret" /\ cont["ctl"] = "ctl_btn"
    /\ Resume("ctl", "ctl_events")
    /\ UNCHANGED <<netVars, envVars, estVars, kbVars, ctlVars, lifeVars>>

\* _process_movement_commands: `current_time - self.last_command_time <
\* self.command_delay`
TooSoon(t, last) == t - last < CommandDelay

\* the command for a thumbstick value outside the deadzone
MoveCommand(y) == IF y > 0 THEN "up 30" ELSE "down 30"

AtMove == alive /\ pc["ctl"] = "ctl_events" /\ events = <<>>

\* _process_movement_commands returns at its rate limit; run() sleeps 10 ms
CtlMoveTooSoon ==
    /\ AtMove
    /\ TooSoon(now, last_command_time)
    /\ current_time' = now
    /\ Goto("ctl", "ctl_loop")
    /\ UNCHANGED <<padq, events, running, left_thumb_y, abs_y, last_command_time>>
    /\ UNCHANGED <<netVars, envVars, estVars, kbVars, lifeVars>>

\* the thumbstick is inside the deadzone: nothing is sent and
\* last_command_time stays
CtlMoveNeutral ==
    /\ AtMove
    /\ ~TooSoon(now, last_command_time)
    /\ ~(Abs(left_thumb_y) > MoveThreshold * AxisScale)
    /\ current_time' = now
    /\ Goto("ctl", "ctl_loop")
    /\ UNCHANGED <<padq, events, running, left_thumb_y, abs_y, last_command_time>>
    /\ UNCHANGED <<netVars, envVars, estVars, kbVars, lifeVars>>

\* the thumbstick is deflected: send_command("up 30") or ("down 30")
CtlMove ==
    /\ AtMove
    /\ ~TooSoon(now, last_command_time)
    /\ Abs(left_thumb_y) > MoveThreshold * AxisScale
    /\ current_time' = now
    /\ Call("ctl", MoveCommand(left_thumb_y), "ctl_moved")
    /\ issued' = Append(issued, [at |-> now, c |-> MoveCommand(left_thumb_y)])
    /\ UNCHANGED <<padq, events, running, left_thumb_y, abs_y, last_command_time>>
    /\ UNCHANGED <<netVars, envVars, estVars, kbVars>>
    /\ UNCHANGED <<alive, phase, emergLog, sdLog, checked>>

\* (a variant that forgets to store the time of the command)
KeepLastCommandTime(cur, last) == last

\* what _process_movement_commands stores after its send_command:
\* self.last_command_time = current_time
NewLastCommandTime(cur, last) == cur

\* the movement's send_command returned
CtlMoved ==
    /\ alive /\ pc["ctl"] = "sc_ret" /\ cont["ctl"] = "ctl_moved"
    /\ last_command_time' = NewLastCommandTime(current_time, last_command_time)
    /\ Resume("ctl", "ctl_loop")
    /\ UNCHANGED <<padq, events, running, left_thumb_y, abs_y, current_time>>
    /\ UNCHANGED <<netVars, envVars, estVars, kbVars, lifeVars>>

Controller ==
    \/ CtlStart \/ CtlLoop \/ CtlGet \/ CtlGetErr
    \/ CtlAxis \/ CtlTakeoff \/ CtlLand \/ CtlEmergency \/ CtlIgnore
    \/ CtlButtonDone
    \/ CtlMoveTooSoon \/ CtlMoveNeutral \/ CtlMove \/ CtlMoved

\* Time passes.
Advance(d) ==
    /\ alive /\ now + d <= MaxTime
    /\ now' = now + d
    /\ UNCHANGED <<responder, faults, presses, padEvents, interrupts>>
    /\ UNCHANGED <<frameVars, netVars, estVars, kbVars, ctlVars, lifeVars>>

\* ---------------------------------------------------- establish_connection
\* establish_connection's `return None`
NoSession == [some |-> FALSE, sock |-> 0, port |-> 0, addr |-> <<"", 0>>]

\* The session establish_connection returns: (command_socket, command_addr)
Session(id) ==
    [some |-> TRUE, sock |-> id, port |-> LocalPort,
     addr |-> <<"192.168.10.1", RemotePort>>]

SetLast(log, e) == [log EXCEPT ![Len(log)] = e]

\* time.sleep(2) after an establishment attempt that failed, in 1/100 s
EstablishDelay == 200

\* What the current establishment attempt has done so far: the socket it
\* created, whether bind succeeded, the handshake datagrams it sent, the
\* datagram it received, how it ended ("" while it runs) and the time it
\* slept after that.
EstEntry(id, b, tx, out) ==
    [sock |-> id, bind |-> b, tx |-> tx, got |-> <<>>, out |-> out, slept |-> 0]

\* The attempt ends with outcome out and the time.sleep(2) of line 256 or 260.
EndAttempt(log, out) ==
    SetLast(log, [log[Len(log)] EXCEPT !.out = out, !.slept = EstablishDelay])

\* (a variant that stops one attempt early)
MoreEstAttemptsShort(a) == a + 2 < MaxAttempts

\* `for attempt in range(max_attempts)`: another attempt follows attempt a
MoreEstAttempts(a) == a + 1 < MaxAttempts

\* The end of an attempt that did not return: time.sleep(2), then the next
\* attempt, or the troubleshooting tips and `return None`.
EstNextAttempt ==
    IF MoreEstAttempts(attempt["main"])
    THEN SetFrame("main", "est_bind", "", attempt["main"] + 1, None, "", <<>>)
    ELSE SetFrame("main", "est_failed", "", attempt["main"], None, "", <<>>)

\* main(): Shift is pressed; establish_connection() begins
MainShift ==
    /\ alive /\ pc["main"] = "wait_shift"
    /\ SetFrame("main", "est_bind", "", 0, None, "", <<>>)
    /\ phase' = "Establishing"
    /\ UNCHANGED <<alive, emergLog, issued, sdLog, checked>>
    /\ UNCHANGED <<netVars, envVars, estVars, kbVars, ctlVars>>

\* socket.socket(...); the socket of the attempt before is dropped with what
\* it had received.  bind(('', 8889)) succeeds.
EstBindOk ==
    /\ alive /\ pc["main"] = "est_bind"
    /\ sockId' = sockId + 1
    /\ bound' = TRUE
    /\ rxq' = <<>>
    /\ estLog' = Append(estLog, EstEntry(sockId + 1, TRUE, 0, ""))
    /\ Goto("main", "est_send")
    /\ UNCHANGED <<wire, sentSet, session>>
    /\ UNCHANGED <<envVars, kbVars, ctlVars, lifeVars>>

\* (a variant that is off by one)
LastEstAttemptLate(a) == a = MaxAttempts

\* `if attempt == max_attempts - 1`
LastEstAttempt(a) == a = MaxAttempts - 1

\* bind raises socket.error (port 8889 is held by another application, on
\* any number of attempts): on the last attempt `return None`, otherwise
\* time.sleep(2) and `continue`
EstBindFail ==
    /\ alive /\ pc["main"] = "est_bind"
    /\ sockId' = sockId + 1
    /\ bound' = FALSE
    /\ rxq' = <<>>
    /\ estLog' = Append(estLog,
          [EstEntry(sockId + 1, FALSE, 0, "bind") EXCEPT
              !.slept = IF LastEstAttempt(attempt["main"]) THEN 0 ELSE EstablishDelay])
    /\ IF LastEstAttempt(attempt["main"])
       THEN SetFrame("main", "est_failed", "", attempt["main"], None, "", <<>>)
       ELSE SetFrame("main", "est_bind", "", attempt["main"] + 1, None, "", <<>>)
    /\ UNCHANGED <<wire, sentSet, session>>
    /\ UNCHANGED <<envVars, kbVars, ctlVars, lifeVars>>

\* command_socket.sendto(b"command", command_addr)
EstSendOk ==
    /\ alive /\ pc["main"] = "est_send"
    /\ Transmit("main", Utf8("command"))
    /\ estLog' = SetLast(estLog, [estLog[Len(estLog)] EXCEPT !.tx = @ + 1])
    /\ Goto("main", "est_recv")
    /\ UNCHANGED <<rxq, sockId, bound, session>>
    /\ UNCHANGED <<envVars, kbVars, ctlVars, lifeVars>>

\* sendto raises: the outer `except Exception`
EstSendErr ==
    /\ alive /\ pc["main"] = "est_send"
    /\ faults < MaxFaults
    /\ faults' = faults + 1
    /\ estLog' = EndAttempt(estLog, "senderr")
    /\ EstNextAttempt
    /\ UNCHANGED <<netVars, sockId, bound, session>>
    /\ UNCHANGED <<responder, presses, padEvents, interrupts, now>>
    /\ UNCHANGED <<kbVars, ctlVars, lifeVars>>

\* (a variant that compares with the handshake command instead of "ok")
HandshakeOkWrongLiteral(d) == Decodable(d) /\ Strip(d) = Utf8("command")

\* `if response == "ok"` on the decoded, stripped answer to the handshake
HandshakeOk(d) == Decodable(d) /\ Strip(d) = Utf8("ok")

\* recvfrom returns a datagram: "ok" returns the session; anything else, or
\* bytes that do not decode, ends the attempt
EstRecvData ==
    /\ alive /\ pc["main"] = "est_recv"
    /\ rxq # <<>>
    /\ rxq' = Tail(rxq)
    /\ IF HandshakeOk(Head(rxq))
       THEN /\ session' = Session(sockId)
            /\ estLog' = SetLast(estLog, [estLog[Len(estLog)] EXCEPT
                                            !.out = "ok", !.got = Head(rxq)])
            /\ Call("main", "command", "chk_cmd")
       ELSE /\ session' = session
            /\ estLog' = SetLast(estLog, [estLog[Len(estLog)] EXCEPT
                                            !.out = "unexpected", !.got = Head(rxq),
                                            !.slept = EstablishDelay])
            /\ EstNextAttempt
    /\ UNCHANGED <<wire, sentSet, sockId, bound>>
    /\ UNCHANGED <<envVars, kbVars, ctlVars, lifeVars>>

\* recvfrom raises socket.timeout
EstRecvTimeout ==
    /\ alive /\ pc["main"] = "est_recv"
    /\ rxq = <<>>
    /\ estLog' = EndAttempt(estLog, "timeout")
    /\ EstNextAttempt
    /\ UNCHANGED <<netVars, sockId, bound, session>>
    /\ UNCHANGED <<envVars, kbVars, ctlVars, lifeVars>>

\* recvfrom raises another error
EstRecvErr ==
    /\ alive /\ pc["main"] = "est_recv"
    /\ rxq = <<>>
    /\ faults < MaxFaults
    /\ faults' = faults + 1
    /\ estLog' = EndAttempt(estLog, "recverr")
    /\ EstNextAttempt
    /\ UNCHANGED <<netVars, sockId, bound, session>>
    /\ UNCHANGED <<responder, presses, padEvents, interrupts, now>>
    /\ UNCHANGED <<kbVars, ctlVars, lifeVars>>

Establish ==
    \/ EstBindOk \/ EstBindFail \/ EstSendOk \/ EstSendErr
    \/ EstRecvData \/ EstRecvTimeout \/ EstRecvErr

\* -------------------------------------------------------- check_connection
\* (a variant that accepts any answer, and no answer)
VerifiedAlways(r) == TRUE

\* `if response == "ok"` on send_command's result
Verified(r) == r = Some(Utf8("ok"))

\* send_command("command") returned: "ok" goes on to the battery query,
\* anything else returns False
ChkCommand ==
    /\ alive /\ pc["main"] = "sc_ret" /\ cont["main"] = "chk_cmd"
    /\ IF Verified(ret["main"])
       THEN Call("main", "battery?", "chk_bat")
       ELSE Resume("main", "abort")
    /\ checked' = IF ret["main"].some /\ ret["main"].text = Utf8("ok")
                  THEN "ok" ELSE "failed"
    /\ UNCHANGED <<alive, phase, emergLog, issued, sdLog>>
    /\ UNCHANGED <<netVars, envVars, estVars, kbVars, ctlVars>>

\* (a variant that fails the verification when the battery query got no
\* answer)
ChkBatteryStrict ==
    /\ alive /\ pc["main"] = "sc_ret" /\ cont["main"] = "chk_bat"
    /\ IF ret["main"].some THEN Goto("main", "chk_true") ELSE Resume("main", "abort")
    /\ UNCHANGED <<netVars, envVars, estVars, kbVars, ctlVars, lifeVars>>

\* battery = send_command("battery?") returned: the level is printed when it
\* is a number, a warning when it is below 20, and whatever it is
\* check_connection goes on to `return True`; ret["main"] is `battery`
ChkBattery ==
    /\ alive /\ pc["main"] = "sc_ret" /\ cont["main"] = "chk_bat"
    /\ Goto("main", "chk_true")
    /\ UNCHANGED <<netVars, envVars, estVars, kbVars, ctlVars, lifeVars>>

\* check_connection's `return True`
ChkReturnTrue ==
    /\ alive /\ pc["main"] = "chk_true"
    /\ Resume("main", "start_ctl")
    /\ UNCHANGED <<netVars, envVars, estVars, kbVars, ctlVars, lifeVars>>

\* -------------------------------------------------------------------- main
\* establish_connection returned None
MainEstFailed ==
    /\ alive /\ pc["main"] = "est_failed"
    /\ Goto("main", "abort")
    /\ UNCHANGED <<netVars, envVars, estVars, kbVars, ctlVars, lifeVars>>

\* "Press Enter to exit...", `return`: the process ends and with it the socket
MainAbort ==
    /\ alive /\ pc["main"] = "abort"
    /\ Goto("main", "exited")
    /\ alive' = FALSE
    /\ phase' = "Aborted"
    /\ bound' = FALSE
    /\ UNCHANGED <<sockId, session, estLog, emergLog, issued, sdLog, checked>>
    /\ UNCHANGED <<netVars, envVars, kbVars, ctlVars>>

\* controller = XboxController(...); controller.start()
MainStartController ==
    /\ alive /\ pc["main"] = "start_ctl"
    /\ pc' = [pc EXCEPT !["main"] = "register", !["ctl"] = "ctl_start"]
    /\ running' = FALSE
    /\ left_thumb_y' = 0 /\ abs_y' = 0
    /\ last_command_time' = now
    /\ estLog' = <<>>
    /\ UNCHANGED <<cmd, attempt, ret, cont, trace, padq, events, current_time>>
    /\ UNCHANGED <<sockId, bound, session>>
    /\ UNCHANGED <<netVars, envVars, kbVars, lifeVars>>

\* the keyboard.on_press_key calls; main() enters its wait for key 5
MainRegister ==
    /\ alive /\ pc["main"] = "register"
    /\ handlers' = HookedKeys
    /\ phase' = "Active"
    /\ Goto("main", "idle")
    /\ UNCHANGED <<kbq, video_started, status, videoLog, alive, emergLog, issued, sdLog, checked>>
    /\ UNCHANGED <<netVars, envVars, estVars, ctlVars>>

\* `finally`: controller.stop(), then send_command("land", debug=False)
BeginShutdown ==
    /\ running' = FALSE
    /\ phase' = "ShuttingDown"
    /\ Call("main", "land", "sd_land")
    /\ UNCHANGED <<padq, events, left_thumb_y, abs_y, last_command_time, current_time>>
    /\ UNCHANGED <<alive, emergLog, issued, sdLog, checked>>
    /\ UNCHANGED <<netVars, estVars, kbVars>>

\* keyboard.is_pressed("5") ends the wait
MainKey5 ==
    /\ alive /\ pc["main"] = "idle"
    /\ BeginShutdown
    /\ UNCHANGED envVars

\* land returned: time.sleep(1), send_command("streamoff", debug=False)
ShutdownLandDone ==
    /\ alive /\ pc["main"] = "sc_ret" /\ cont["main"] = "sd_land"
    /\ Call("main", "streamoff", "sd_off")
    /\ UNCHANGED <<netVars, envVars, estVars, kbVars, ctlVars, lifeVars>>

\* main() returns: the process ends, its daemon threads with it, and the
\* operating system releases the socket
ProcessExit ==
    /\ Goto("main", "exited")
    /\ alive' = FALSE
    /\ phase' = "Closed"
    /\ bound' = FALSE
    /\ UNCHANGED <<sockId, session, estLog, emergLog, issued, sdLog, checked>>
    /\ UNCHANGED <<netVars, kbVars, ctlVars>>

\* streamoff returned: "Exited safely"
ShutdownDone ==
    /\ alive /\ pc["main"] = "sc_ret" /\ cont["main"] = "sd_off"
    /\ ProcessExit
    /\ UNCHANGED envVars

InShutdown == phase = "ShuttingDown"

\* Ctrl-C: KeyboardInterrupt is raised in the main thread, wherever it is.
\* In the wait for key 5 `except KeyboardInterrupt` leads to the `finally`
\* block.
InterruptIdle ==
    /\ alive /\ pc["main"] = "idle"
    /\ interrupts < MaxInterrupts
    /\ interrupts' = interrupts + 1
    /\ BeginShutdown
    /\ UNCHANGED <<responder, faults, presses, padEvents, now>>

\* Inside the `try` of the `finally` block the bare `except: pass` takes it:
\* the rest of the block is skipped and main() returns.
InterruptShutdown ==
    /\ alive /\ InShutdown
    /\ interrupts < MaxInterrupts
    /\ interrupts' = interrupts + 1
    /\ ProcessExit
    /\ UNCHANGED <<responder, faults, presses, padEvents, now>>

\* Before the wait for key 5 nothing catches it (the handler of the module
\* catches Exception only): the process ends with the traceback.
InterruptStartup ==
    /\ alive /\ phase \in {"Unestablished", "Establishing"}
    /\ interrupts < MaxInterrupts
    /\ interrupts' = interrupts + 1
    /\ Goto("main", "exited")
    /\ alive' = FALSE
    /\ phase' = "Aborted"
    /\ bound' = FALSE
    /\ UNCHANGED <<sockId, session, estLog, emergLog, issued, sdLog, checked>>
    /\ UNCHANGED <<responder, faults, presses, padEvents, now>>
    /\ UNCHANGED <<netVars, kbVars, ctlVars>>

Main ==
    \/ MainShift \/ Establish \/ ChkCommand \/ ChkBattery \/ ChkReturnTrue
    \/ MainEstFailed \/ MainAbort \/ MainStartController \/ MainRegister
    \/ MainKey5 \/ ShutdownLandDone \/ ShutdownDone

\* ---------------------------------------------------------- initial states
\* The program before main() has done anything.
InitWith(mode) ==
    /\ pc = [t \in Threads |->
                CASE t = "main" -> "wait_shift"
                  [] t = "kb" -> "kb_idle"
                  [] t = "ctl" -> "ctl_new"
                  [] t = "vid" -> "vid_new"]
    /\ cmd = [t \in Threads |-> ""]
    /\ attempt = [t \in Threads |-> 0]
    /\ ret = [t \in Threads |-> None]
    /\ cont = [t \in Threads |-> ""]
    /\ trace = [t \in Threads |-> <<>>]
    /\ rxq = <<>> /\ wire = <<>> /\ sentSet = {}
    /\ responder = mode
    /\ faults = 0 /\ presses = 0 /\ padEvents = 0 /\ interrupts = 0 /\ now = 0
    /\ sockId = 0 /\ bound = FALSE /\ session = NoSession /\ estLog = <<>>
    /\ kbq = <<>> /\ handlers = {} /\ video_started = FALSE
    /\ status = NoStatus /\ videoLog = <<>>
    /\ padq = <<>> /\ events = <<>> /\ running = FALSE
    /\ left_thumb_y = 0 /\ abs_y = 0 /\ last_command_time = 0 /\ current_time = 0
    /\ alive = TRUE /\ phase = "Unestablished"
    /\ emergLog = <<>> /\ issued = <<>> /\ sdLog = <<>> /\ checked = ""

\* The program as main() leaves it at its `while not keyboard.is_pressed("5")`
\* loop: the session established by the first attempt, the hooks registered,
\* the controller thread started and in its loop.
ActiveWith(mode) ==
    /\ pc = [t \in Threads |->
                CASE t = "main" -> "idle"
                  [] t = "kb" -> "kb_idle"
                  [] t = "ctl" -> "ctl_get"
                  [] t = "vid" -> "vid_new"]
    /\ cmd = [t \in Threads |-> ""]
    /\ attempt = [t \in Threads |-> 0]
    /\ ret = [t \in Threads |-> None]
    /\ cont = [t \in Threads |-> ""]
    /\ trace = [t \in Threads |-> <<>>]
    /\ rxq = <<>> /\ wire = <<>>
    /\ sentSet = {Utf8("command"), Utf8("battery?")}
    /\ responder = mode
    /\ faults = 0 /\ presses = 0 /\ padEvents = 0 /\ interrupts = 0 /\ now = 0
    /\ sockId = 1 /\ bound = TRUE /\ session = Session(1)
    /\ estLog = <<>>
    /\ kbq = <<>> /\ handlers = HookedKeys /\ video_started = FALSE
    /\ status = NoStatus /\ videoLog = <<>>
    /\ padq = <<>> /\ events = <<>> /\ running = TRUE
    /\ left_thumb_y = 0 /\ abs_y = 0 /\ last_command_time = 0 /\ current_time = 0
    /\ alive = TRUE /\ phase = "Active"
    /\ emergLog = <<>> /\ issued = <<>> /\ sdLog = <<>> /\ checked = "ok"

\* ------------------------------------------------ send_command, one caller
\* The keyboard callback thread issues land and takeoff commands one after
\* the other to a vehicle whose answers may be late, lost, padded with
\* whitespace or undecodable.
InitSend == ActiveWith("noisy")

NextSend ==
    \/ \E k \in {"3", "t"} : PressKey(k)
    \/ KbLand
    \/ KbTakeoff
    \/ KbDone
    \/ SendCommand("kb")
    \/ VehicleAnswer
    \/ VehicleSilent

SpecSend == InitSend /\ [][NextSend]_vars

\* ------------------------------------------------------- the whole program
\* main() from its start to the end of the process, with a drone that follows
\* the SDK; key 5 or Ctrl-C ends the program.
Init == InitWith("protocol")

Next ==
    \/ Main
    \/ InterruptStartup \/ InterruptIdle \/ InterruptShutdown
    \/ SendCommand("main")
    \/ VehicleAnswer \/ VehicleSilent
    \/ CtlStart \/ CtlLoop

Spec == Init /\ [][Next]_vars

\* ------------------------------------------------- the threads, once Active
\* The keyboard callback thread and the controller thread on the one socket,
\* while the main thread waits for key 5.  The operator presses the emergency
\* and land keys and the A and X buttons.
InitActive == ActiveWith("protocol")

FewInputs == presses + padEvents < MaxInputs

NextActive ==
    \/ \E k \in {"1", "3"} : FewInputs /\ PressKey(k)
    \/ KbEmergency \/ KbLand \/ KbDone
    \/ \E e \in {PadEv("Key", "BTN_SOUTH", 1), PadEv("Key", "BTN_WEST", 1)} :
          FewInputs /\ PadEvent(e)
    \/ CtlLoop \/ CtlGet \/ CtlTakeoff \/ CtlEmergency \/ CtlButtonDone
    \/ CtlMoveTooSoon
    \/ \E t \in {"kb", "ctl"} : SendCommand(t)
    \/ VehicleAnswer \/ VehicleSilent

SpecActive == InitActive /\ [][NextActive]_vars

\* ------------------------------------------- two callers, an echo responder
\* The T key (takeoff, keyboard callback thread) and the B button (land,
\* controller thread) against a responder that sends each command back.
InitEcho == ActiveWith("echo")

NextEcho ==
    \/ FewInputs /\ PressKey("t")
    \/ KbTakeoff \/ KbDone
    \/ FewInputs /\ PadEvent(PadEv("Key", "BTN_EAST", 1))
    \/ CtlLoop \/ CtlGet \/ CtlLand \/ CtlButtonDone \/ CtlMoveTooSoon
    \/ \E t \in {"kb", "ctl"} : SendCommand(t)
    \/ VehicleAnswer \/ VehicleSilent

SpecEcho == InitEcho /\ [][NextEcho]_vars

\* ------------------------------------------- the controller and the clock
\* The controller thread alone, its thumbstick moved and held, while time
\* passes in steps of 490 ms and of 500 ms.
TimeSteps == {CommandDelay - 1, CommandDelay}

InitCtl == ActiveWith("protocol")

NextCtl ==
    \/ \E v \in {-32768, 6553, 32767} : PadEvent(PadEv("Absolute", "ABS_Y", v))
    \/ CtlLoop \/ CtlGet \/ CtlAxis
    \/ CtlMoveTooSoon \/ CtlMoveNeutral \/ CtlMove \/ CtlMoved
    \/ SendCommand("ctl")
    \/ VehicleAnswer \/ VehicleSilent
    \/ \E d \in TimeSteps : Advance(d)

SpecCtl == InitCtl /\ [][NextCtl]_vars

\* ------------------------------------------------------------- start-up
\* main() from the wait for Shift to the registration of the key hooks:
\* establishment, verification, and the start of the controller thread.
InitStartup == InitWith("protocol")

NextStartup ==
    \/ MainShift \/ Establish
    \/ ChkCommand \/ ChkBattery \/ ChkReturnTrue
    \/ MainEstFailed \/ MainAbort \/ MainStartController \/ MainRegister
    \/ InterruptStartup
    \/ SendCommand("main")
    \/ VehicleAnswer \/ VehicleSilent
    \/ CtlStart \/ CtlLoop

SpecStartup == InitStartup /\ [][NextStartup]_vars

\* ------------------------------------------------------------ video key
\* Key 2 is pressed any number of times while the video thread, once
\* started, sends streamon, shows the stream and ends with streamoff.
InitVideo == ActiveWith("protocol")

NextVideo ==
    \/ PressKey("2")
    \/ KbStartVideo
    \/ Video
    \/ SendCommand("vid")
    \/ VehicleAnswer \/ VehicleSilent

SpecVideo == InitVideo /\ [][NextVideo]_vars

\* --------------------------------------------------------- emergency stop
\* Key 1 on the keyboard; A (takeoff) and X (emergency stop) on the gamepad.
InitEmergency == ActiveWith("protocol")

NextEmergency ==
    \/ FewInputs /\ PressKey("1")
    \/ KbEmergency
    \/ \E e \in {PadEv("Key", "BTN_SOUTH", 1), PadEv("Key", "BTN_WEST", 1)} :
          FewInputs /\ PadEvent(e)
    \/ CtlLoop \/ CtlGet \/ CtlTakeoff \/ CtlEmergency \/ CtlButtonDone
    \/ CtlMoveTooSoon
    \/ SendCommand("ctl")
    \/ VehicleAnswer \/ VehicleSilent

SpecEmergency == InitEmergency /\ [][NextEmergency]_vars

\* ------------------------------------------ one caller, an echo responder
\* The keyboard callback thread issues land and takeoff commands one after
\* the other to a responder that sends every datagram back, possibly late.
InitLate == ActiveWith("echo")

NextLate ==
    \/ \E k \in {"3", "t"} : PressKey(k)
    \/ KbLand \/ KbTakeoff \/ KbDone
    \/ SendCommand("kb")
    \/ VehicleAnswer \/ VehicleSilent

SpecLate == InitLate /\ [][NextLate]_vars

\* --------------------------------------------------------- status report
\* send_command("status?") has returned to get_tello_status: None, or any
\* text of up to MaxStatusLen characters out of ';', ':', 'a' and ' ', as
\* send_command returns it (stripped).  Key 6 may be pressed again.
StatusAlphabet == {Semicolon, Colon, 97, 32}

StatusStrings == UNION {[1..n -> StatusAlphabet] : n \in 0..MaxStatusLen}

InitStatus ==
    /\ pc = [t \in Threads |->
                CASE t = "main" -> "idle"
                  [] t = "kb" -> "sc_ret"
                  [] t = "ctl" -> "ctl_get"
                  [] t = "vid" -> "vid_new"]
    /\ cmd = [t \in Threads |-> IF t = "kb" THEN "status?" ELSE ""]
    /\ attempt = [t \in Threads |-> 0]
    /\ \E r \in {None} \cup {Response(x) : x \in StatusStrings} :
          ret = [t \in Threads |-> IF t = "kb" THEN r ELSE None]
    /\ cont = [t \in Threads |-> IF t = "kb" THEN "kb_status" ELSE ""]
    /\ trace = [t \in Threads |-> <<>>]
    /\ rxq = <<>> /\ wire = <<>>
    /\ sentSet = {Utf8("command"), Utf8("battery?"), Utf8("status?")}
    /\ responder = "protocol"
    /\ faults = 0 /\ presses = 1 /\ padEvents = 0 /\ interrupts = 0 /\ now = 0
    /\ sockId = 1 /\ bound = TRUE /\ session = Session(1)
    /\ estLog = <<>>
    /\ kbq = <<>> /\ handlers = HookedKeys /\ video_started = FALSE
    /\ status = NoStatus /\ videoLog = <<>>
    /\ padq = <<>> /\ events = <<>> /\ running = TRUE
    /\ left_thumb_y = 0 /\ abs_y = 0 /\ last_command_time = 0 /\ current_time = 0
    /\ alive = TRUE /\ phase = "Active"
    /\ emergLog = <<>> /\ issued = <<>> /\ sdLog = <<>> /\ checked = "ok"

NextStatus ==
    \/ KbStatusDone
    \/ PressKey("6")
    \/ KbStatus

SpecStatus == InitStatus /\ [][NextStatus]_vars

\* ================================================================ claims
\* What a send_command call did, read off its trace.
SendAttempts(tr) ==
    Cardinality({i \in 1..Len(tr) : tr[i].e \in {"sendto", "senderr"}})

Datagrams(tr) == {i \in 1..Len(tr) : tr[i].e = "dgram"}

TextDatagrams(tr) == {i \in Datagrams(tr) : Decodable(tr[i].b)}

Sleeps(tr) == {i \in 1..Len(tr) : tr[i].e = "sleep"}

Min(S) == CHOOSE x \in S : \A y \in S : x <= y

Returned(t) == pc[t] = "sc_ret"

\* C4 as stated: when the first datagram a send_command call receives arrives
\* in its Nth attempt, the call returns that datagram, decoded and stripped,
\* after exactly N sendto calls, and the datagram is the last thing it did.
C4_FirstResponseReturned ==
    \A t \in Threads :
        (Returned(t) /\ Datagrams(trace[t]) # {}) =>
            LET i == Min(Datagrams(trace[t]))
            IN  /\ ret[t] = Some(Strip(trace[t][i].b))
                /\ SendAttempts(trace[t]) = trace[t][i].a + 1
                /\ i = Len(trace[t])

\* C4 amended: when the first datagram that decodes as UTF-8 text arrives in
\* the Nth attempt of a send_command call, the call returns it, stripped,
\* after exactly N sendto calls and does nothing more.
C4_FirstTextResponseReturned ==
    \A t \in Threads :
        (Returned(t) /\ TextDatagrams(trace[t]) # {}) =>
            LET i == Min(TextDatagrams(trace[t]))
            IN  /\ ret[t] = Some(Strip(trace[t][i].b))
                /\ ret[t].text = Utf8("ok")
                /\ SendAttempts(trace[t]) = trace[t][i].a + 1
                /\ i = Len(trace[t])

\* A call returned the answer of its second attempt, the first having timed out.
C4_Witness ==
    /\ Returned("kb")
    /\ Len(trace["kb"]) = 5
    /\ trace["kb"][2].e = "timeout"
    /\ trace["kb"][5].e = "dgram" /\ trace["kb"][5].a = 1
    /\ ret["kb"] = Some(Utf8("ok"))

\* C5: a send_command call that receives no datagram makes exactly Retry
\* sendto calls, sleeps Backoff once between every two consecutive attempts
\* and not after the last, and returns None.
C5_SilentVehicleExhaustsRetries ==
    \A t \in Threads :
        (Returned(t) /\ Datagrams(trace[t]) = {}) =>
            LET tr == trace[t]
                sends == {i \in 1..Len(tr) : tr[i].e \in {"sendto", "senderr"}}
            IN  /\ ret[t] = None
                /\ Cardinality(sends) = Retry
                /\ \A a \in 0..(Retry - 1) :
                      Cardinality({i \in sends : tr[i].a = a}) = 1
                /\ Cardinality(Sleeps(tr)) = Retry - 1
                /\ \A i \in Sleeps(tr) : tr[i].d = Backoff
                /\ \A i \in sends, j \in sends :
                      (tr[j].a = tr[i].a + 1) =>
                          Cardinality({k \in Sleeps(tr) : i < k /\ k < j}) = 1

\* Three transmissions, three timeouts, two sleeps, None.
C5_Witness ==
    /\ Returned("kb") /\ ret["kb"] = None
    /\ Cardinality({i \in 1..Len(trace["kb"]) : trace["kb"][i].e = "sendto"}) = Retry
    /\ Cardinality({i \in 1..Len(trace["kb"]) : trace["kb"][i].e = "timeout"}) = Retry

\* C1: at most one send_command call is in flight on the socket: no two
\* threads are both between their call's first sendto and its return.
InFlight(t) ==
    /\ pc[t] \in {"sc_send", "sc_recv"}
    /\ \E i \in 1..Len(trace[t]) : trace[t][i].e = "sendto"

C1_AtMostOneInFlight == Cardinality({t \in Threads : InFlight(t)}) <= 1

\* C2: against the echo responder, a caller whose send_command returns a
\* response while the other caller is still inside its own call gets the echo
\* of its own command.
InCall(t) == pc[t] \in {"sc_send", "sc_recv", "sc_ret"}

C2_OwnResponse ==
    \A t \in {"kb", "ctl"} : \A u \in {"kb", "ctl"} \ {t} :
        (Returned(t) /\ ret[t].some /\ InCall(u)) => ret[t].text = Utf8(cmd[t])

\* C3: an emergency stop that has been requested (key 1 queued for the
\* keyboard callback thread, X button held by the gamepad or fetched by the
\* controller loop) is never left waiting behind a send_command call that
\* waits for its response.
EmergencyRequested(t) ==
    IF t = "kb"
    THEN \E i \in 1..Len(kbq) : kbq[i] = "1"
    ELSE \E i \in 1..Len(padq \o events) :
            (padq \o events)[i] = PadEv("Key", "BTN_WEST", 1)

C3_EmergencyNotDelayed ==
    \A t \in {"kb", "ctl"} : ~(EmergencyRequested(t) /\ pc[t] = "sc_recv")

\* C6: when establish_connection returns None and no attempt received any
\* datagram, it made exactly MaxAttempts attempts, each on a socket of its
\* own, each sending one handshake datagram if its bind and its sendto
\* succeeded and none otherwise; with no socket error that is MaxAttempts
\* handshake datagrams.
RECURSIVE SumTx(_)
SumTx(log) == IF log = <<>> THEN 0 ELSE Head(log).tx + SumTx(Tail(log))

EstReturnedNone == pc["main"] = "est_failed"

C6_SilentResponderExhaustsAttempts ==
    (EstReturnedNone /\ \A i \in 1..Len(estLog) : estLog[i].got = <<>>) =>
        /\ Len(estLog) = MaxAttempts
        /\ session = NoSession
        /\ \A i \in 1..Len(estLog) :
              /\ estLog[i].sock = i
              /\ estLog[i].tx = IF estLog[i].out \in {"timeout", "recverr"} THEN 1 ELSE 0
        /\ (\A i \in 1..Len(estLog) : estLog[i].out = "timeout") =>
              SumTx(estLog) = MaxAttempts

\* Three attempts, each bound, each with its handshake sent and timed out.
C6_Witness ==
    /\ EstReturnedNone
    /\ Len(estLog) = 3
    /\ \A i \in 1..Len(estLog) :
          estLog[i].bind /\ estLog[i].tx = 1 /\ estLog[i].out = "timeout"

\* C7: when the first attempt receives "ok" for its handshake, there is no
\* second attempt, one handshake datagram was sent, and the session returned
\* is the first socket, bound to port 8889, with remote address
\* 192.168.10.1:8889.
C7_FirstOkEstablishes ==
    (estLog # <<>> /\ estLog[1].got = <<111, 107>>) =>
        /\ Len(estLog) = 1
        /\ estLog[1].bind /\ estLog[1].tx = 1
        /\ session = [some |-> TRUE, sock |-> 1, port |-> 8889,
                      addr |-> <<"192.168.10.1", 8889>>]
        /\ alive => bound

\* The first attempt got "ok" and check_connection has begun.
C7_Witness ==
    /\ estLog # <<>> /\ estLog[1].got = <<111, 107>>
    /\ session.some /\ cont["main"] = "chk_cmd"

\* C8: once establishment has used up its attempts, or the health check of
\* check_connection has failed, the program is never Active: no key is
\* hooked, the controller thread is not started, and nothing but "command"
\* and "battery?" was ever sent.
EstablishmentExhausted ==
    /\ Len(estLog) >= MaxAttempts
    /\ estLog[Len(estLog)].out \notin {"", "ok"}

C8_FailureNeverActive ==
    (EstablishmentExhausted \/ checked = "failed") =>
        /\ phase \in {"Establishing", "Aborted"}
        /\ handlers = {}
        /\ pc["ctl"] = "ctl_new" /\ ~running
        /\ sentSet \subseteq {Utf8("command"), Utf8("battery?")}

\* The health check failed and main() has returned.
C8_Witness ==
    /\ checked = "failed" /\ session.some
    /\ pc["main"] = "exited" /\ phase = "Aborted"

\* C9: the lifecycle is Closed only after the shutdown path has sent land and
\* then streamoff and the socket is released.
C9_ClosedAfterLandAndStreamOff ==
    phase = "Closed" =>
        /\ \E i \in 1..Len(sdLog) : \E j \in (i + 1)..Len(sdLog) :
              sdLog[i].c = "land" /\ sdLog[j].c = "streamoff"
        /\ ~bound

\* C10: two movement commands in a row are issued at least CommandDelay
\* apart, a command being issued when _process_movement_commands samples the
\* clock and calls send_command, however long the calls take.
C10_MovementRateLimited ==
    \A i \in 1..(Len(issued) - 1) :
        issued[i + 1].at - issued[i].at >= CommandDelay

\* A second movement command issued exactly CommandDelay after the first.
C10_Witness ==
    /\ Len(issued) = 2
    /\ issued[2].at - issued[1].at = CommandDelay
    /\ InCall("ctl")

\* C11: at a poll the rate limit lets through, a movement command is issued
\* exactly when the magnitude of the last raw axis value is 15 % of the range
\* or more, and it is "up 30" or "down 30".
PollPasses ==
    /\ AtMove /\ ~TooSoon(now, last_command_time)
    /\ pc'["ctl"] # pc["ctl"]

C11_DeadzoneDecides ==
    [][PollPasses =>
         /\ (issued' # issued) <=> (Abs(abs_y) * 100 >= 15 * 32767)
         /\ issued' # issued =>
               issued'[Len(issued')].c \in {"up 30", "down 30"}]_vars

\* C12: the movement command issued follows the sign of the last raw axis
\* value: "up 30" for a positive value, "down 30" for a negative one.
C12_DirectionFollowsSign ==
    [][issued' # issued =>
         issued'[Len(issued')].c = IF abs_y > 0 THEN "up 30" ELSE "down 30"]_vars

\* C13: the step that handles an emergency stop request sends the datagram
\* three times when no socket error occurs, reads nothing from the socket,
\* takes no time and leaves its thread where it was, outside send_command.
EmergencyHandled(t) ==
    IF t = "kb"
    THEN KbNext("1") /\ kbq' = Tail(kbq)
    ELSE /\ CtlHead("Key") /\ Head(events) = PadEv("Key", "BTN_WEST", 1)
         /\ events' = Tail(events)

SentDirectly(t) ==
    /\ Len(emergLog') = Len(emergLog) + 1
    /\ emergLog'[Len(emergLog')].src = t
    /\ faults' = faults =>
          /\ emergLog'[Len(emergLog')].n = 3
          /\ sentSet' = sentSet \cup {Utf8("emergency")}
    /\ rxq' = rxq /\ now' = now
    /\ pc' = pc /\ trace' = trace

C13_EmergencySentDirectly ==
    [][\A t \in {"kb", "ctl"} : EmergencyHandled(t) => SentDirectly(t)]_vars

\* An emergency stop from the keyboard went out in full while the controller
\* thread's command was in flight.
C13_Witness ==
    \E i \in 1..Len(emergLog) :
        /\ emergLog[i].src = "kb" /\ emergLog[i].n = 3
        /\ "ctl" \in emergLog[i].busy
        /\ pc["ctl"] = "sc_recv"

\* C14: in a send_command call an attempt that ends with a socket error or
\* with a response that does not decode sends at most once, is followed by the
\* backoff and the next attempt as after a timeout (or, if it was the last,
\* by the return of None), and leaves its thread inside the call or returned;
\* a call whose every attempt ended so returns None after Retry attempts.
FailedByError(ev) ==
    \/ ev.e \in {"senderr", "recverr"}
    \/ ev.e = "dgram" /\ ~Decodable(ev.b)

Failures(tr) == {i \in 1..Len(tr) : FailedByError(tr[i])}

C14_ErrorConsumesOneAttempt ==
    \A t \in Threads :
        LET tr == trace[t]
        IN  /\ \A a \in 0..(Retry - 1) :
                  Cardinality({i \in 1..Len(tr) :
                      tr[i].e \in {"sendto", "senderr"} /\ tr[i].a = a}) <= 1
            /\ \A i \in 1..Len(tr) : tr[i].a < Retry
            /\ \A i \in Failures(tr) :
                  /\ InCall(t)
                  /\ IF tr[i].a < Retry - 1
                     THEN /\ Len(tr) > i
                          /\ tr[i + 1] = Ev("sleep", tr[i].a, <<>>, Backoff)
                          /\ Len(tr) = i + 1 =>
                                pc[t] = "sc_send" /\ attempt[t] = tr[i].a + 1
                          /\ Len(tr) > i + 1 =>
                                /\ tr[i + 2].e \in {"sendto", "senderr"}
                                /\ tr[i + 2].a = tr[i].a + 1
                     ELSE i = Len(tr) /\ Returned(t) /\ ret[t] = None
            /\ (Returned(t) /\ \A a \in 0..(Retry - 1) :
                                  \E i \in Failures(tr) : tr[i].a = a) =>
                  ret[t] = None /\ SendAttempts(tr) = Retry

\* Every attempt of a call failed, one by a socket error and one by a response
\* that is no UTF-8, none by a timeout, and the call returned None.
C14_Witness ==
    /\ Returned("kb") /\ ret["kb"] = None
    /\ \A a \in 0..2 : \E i \in Failures(trace["kb"]) : trace["kb"][i].a = a
    /\ \E i \in 1..Len(trace["kb"]) : trace["kb"][i].e \in {"senderr", "recverr"}
    /\ \E i \in 1..Len(trace["kb"]) : trace["kb"][i].e = "dgram"

\* C15: an establishment attempt whose bind failed sent no handshake and
\* received nothing; if it was not the last, 2 s were slept and the next
\* attempt, if begun, has a socket of its own; if it was the last, nothing was
\* slept and establish_connection returned None.  With bind failing on every
\* attempt there are exactly MaxAttempts attempts, no handshake datagram and
\* no session.
Establishing == pc["main"] \in {"est_bind", "est_send", "est_recv"}

C15_BindFailureSendsNothing ==
    /\ \A i \in 1..Len(estLog) :
          ~estLog[i].bind =>
              /\ estLog[i].tx = 0 /\ estLog[i].got = <<>> /\ estLog[i].out = "bind"
              /\ IF i < MaxAttempts
                 THEN /\ estLog[i].slept = 200
                      /\ Len(estLog) > i => estLog[i + 1].sock # estLog[i].sock
                      /\ (Len(estLog) = i /\ Establishing) =>
                            pc["main"] = "est_bind" /\ attempt["main"] = i
                 ELSE /\ estLog[i].slept = 0
                      /\ Len(estLog) = i
                      /\ ~Establishing /\ session = NoSession
    /\ (Len(estLog) >= MaxAttempts /\ \A i \in 1..Len(estLog) : ~estLog[i].bind) =>
          /\ Len(estLog) = MaxAttempts
          /\ SumTx(estLog) = 0 /\ sentSet = {}
          /\ session = NoSession /\ ~Establishing

\* bind failed on each of the three attempts and establish_connection
\* returned None.
C15_Witness ==
    /\ EstReturnedNone
    /\ Len(estLog) = 3
    /\ \A i \in 1..Len(estLog) : ~estLog[i].bind /\ estLog[i].sock = i
    /\ sentSet = {}

\* C16: a socket error during an emergency stop leaves the handling thread
\* where it was, ready for its next event, with the process alive; and an
\* emergency request handled after such an error is sent like any other.
EmergencyFailedBefore(t) ==
    \E i \in 1..Len(emergLog) : emergLog[i].src = t /\ emergLog[i].n < 3

C16_EmergencyErrorNotFatal ==
    [][\A t \in {"kb", "ctl"} :
          /\ (EmergencyHandled(t) /\ faults' # faults) =>
                /\ pc'[t] = pc[t] /\ pc'[t] \in {"kb_idle", "ctl_events"}
                /\ alive'
                /\ emergLog'[Len(emergLog')].n < 3
          /\ (EmergencyHandled(t) /\ EmergencyFailedBefore(t)) =>
                /\ Len(emergLog') = Len(emergLog) + 1
                /\ emergLog'[Len(emergLog')].src = t]_vars

\* The keyboard's first emergency stop failed after two datagrams; its second
\* went out in full.
C16_Witness ==
    /\ Len(emergLog) = 2
    /\ emergLog[1].src = "kb" /\ emergLog[1].n = 2
    /\ emergLog[2].src = "kb" /\ emergLog[2].n = 3

\* C17: once main has called controller.stop(), the controller's loop test
\* never again lets the thread into a new iteration.
StopCalled == phase \in {"ShuttingDown", "Closed"}

C17_NoIterationAfterStop ==
    [][(StopCalled /\ pc["ctl"] = "ctl_loop") => pc'["ctl"] # "ctl_get"]_vars

\* C18: in check_connection "battery?" is sent only after the health check
\* was answered "ok"; the health check's result alone decides: "ok" leads to
\* the battery query and then to `return True` whatever the query returned,
\* anything else to the exit of main(); and after a failed health check no
\* socket is created and no establishment attempt is made.
MainLeaves(p, k) ==
    /\ pc["main"] = p /\ cont["main"] = k
    /\ alive' /\ pc'["main"] # p

C18_VerificationRound ==
    [][/\ Utf8("battery?") \in sentSet' => checked' = "ok"
       /\ MainLeaves("sc_ret", "chk_cmd") =>
             IF ret["main"] = [some |-> TRUE, text |-> <<111, 107>>]
             THEN /\ pc'["main"] = "sc_send" /\ cmd'["main"] = "battery?"
                  /\ checked' = "ok"
             ELSE pc'["main"] = "abort" /\ checked' = "failed"
       /\ MainLeaves("sc_ret", "chk_bat") => pc'["main"] = "chk_true"
       /\ MainLeaves("chk_true", "chk_bat") => pc'["main"] = "start_ctl"
       /\ pc'["main"] = "start_ctl" => checked' = "ok"
       /\ checked = "failed" =>
             /\ pc'["main"] \in {"abort", "exited"}
             /\ sockId' = sockId /\ estLog' = estLog
             /\ sentSet' = sentSet]_vars

\* The health check was answered "ok", the battery query got no answer, and
\* check_connection is about to return True.
C18_Witness ==
    /\ pc["main"] = "chk_true" /\ checked = "ok"
    /\ ret["main"] = None

\* What the status report is said to hold for the response text: one pair
\* for every non-empty item between the ';', in order: for an item without
\* ':' the item and "N/A", for an item with ':' what is before its first ':'
\* and what is after it, each stripped.
NonEmptyItems(text) == SelectSeq(Split(text, 59), LAMBDA x : x # <<>>)

Colons(item) == Cardinality({i \in 1..Len(item) : item[i] = 58})

PairOf(item) ==
    IF Colons(item) = 0 THEN <<Strip(item), <<78, 47, 65>>>>
    ELSE LET i == CHOOSE k \in 1..Len(item) :
                     item[k] = 58 /\ \A j \in 1..(k - 1) : item[j] # 58
         IN  <<Strip(SubSeq(item, 1, i - 1)), Strip(SubSeq(item, i + 1, Len(item)))>>

ReportsEveryItem ==
    LET items == NonEmptyItems(status.raw.text)
    IN  /\ Len(status.printed) = Len(items)
        /\ \A k \in 1..Len(items) : status.printed[k] = PairOf(items[k])

StatusReported == status.state # "" /\ status.raw.some

\* C19 as stated: for every response get_tello_status got, it printed the
\* pair of every non-empty item.
C19_EveryItemReported == StatusReported => ReportsEveryItem

\* C19 amended: for every response whose items hold at most one ':' each,
\* get_tello_status printed the pair of every non-empty item; for a response
\* with an item that holds more, it printed the pairs of the items before the
\* first such item and then the parsing error; it ends normally in every case.
C19_WellFormedItemsReported ==
    StatusReported =>
        LET items == NonEmptyItems(status.raw.text)
            bad == {k \in 1..Len(items) : Colons(items[k]) > 1}
        IN  /\ status.state \in {"failed", "parsed", "error"}
            /\ pc["kb"] # "kb_dead"
            /\ bad = {} => ReportsEveryItem
            /\ bad = {} =>
                  status.state = IF status.raw.text = <<>> THEN "failed" ELSE "parsed"
            /\ bad # {} =>
                  /\ status.state = "error"
                  /\ Len(status.printed) = Min(bad) - 1
                  /\ \A k \in 1..Len(status.printed) :
                        status.printed[k] = PairOf(items[k])

\* The response "a:;a" was reported as the pairs ("a", "") and ("a", "N/A").
C19_Witness ==
    /\ status.state = "parsed"
    /\ status.raw = Some(<<97, 58, 59, 97>>)
    /\ status.printed = << <<(<<97>>), <<>>>>, <<(<<97>>), <<78, 47, 65>>>> >>

\* C20: with one caller and the echo responder, whose reply to a datagram is
\* that datagram, every response a send_command call returns is the reply to
\* the command of that call.
C20_ReplyToOwnCommand ==
    \A t \in Threads :
        (Returned(t) /\ ret[t].some) => ret[t].text = Utf8(cmd[t])

\* C21: the video thread leaves its initial position once and never comes
\* back to it; a send_command("streamon") begins only as the start of that
\* thread; and the handling of a press of key 2 after the thread was started
\* changes nothing of the thread and sends nothing, whether the stream runs
\* or has ended.
VideoKeyHandled == KbNext("2") /\ kbq' = Tail(kbq)

StreamOnBegins ==
    /\ pc'["vid"] = "sc_send" /\ cmd'["vid"] = "streamon" /\ attempt'["vid"] = 0
    /\ ~(pc["vid"] \in {"sc_send", "sc_recv"} /\ cmd["vid"] = "streamon")

VideoStarts(log) == Cardinality({i \in 1..Len(log) : log[i].started})

C21_VideoStartedOnce ==
    [][/\ pc["vid"] # "vid_new" => pc'["vid"] # "vid_new"
       /\ StreamOnBegins => VideoKeyHandled /\ pc["vid"] = "vid_new"
       /\ (VideoKeyHandled /\ pc["vid"] = "vid_new") => StreamOnBegins
       /\ (VideoKeyHandled /\ pc["vid"] # "vid_new") =>
             /\ pc'["vid"] = pc["vid"] /\ cmd'["vid"] = cmd["vid"]
             /\ trace'["vid"] = trace["vid"]
             /\ wire' = wire /\ sentSet' = sentSet
       /\ VideoStarts(videoLog') <= 1]_vars

\* Key 2 was handled a second time after the stream had ended: the thread
\* stayed ended.
C21_Witness ==
    /\ Len(videoLog) = 2
    /\ videoLog[1] = [started |-> TRUE, vid |-> "vid_new"]
    /\ videoLog[2] = [started |-> FALSE, vid |-> "vid_done"]
    /\ pc["vid"] = "vid_done"
    /\ <<115, 116, 114, 101, 97, 109, 111, 102, 102>> \in sentSet

====
